---- MODULE Spec2Model ----
(***************************************************************************)
(* A model of the SSM parameter resolver (src/resolver/resolver.go).       *)
(*                                                                         *)
(* Texts, references and values are sequences of one-character strings,    *)
(* so that placeholder matching and replacement are computed character by  *)
(* character, the way the regular expressions of the code work.            *)
(*                                                                         *)
(* One top-level operation runs per behaviour: the package keeps no state  *)
(* between calls.  pc is the position of the running call.                 *)
(***************************************************************************)
EXTENDS Integers, Sequences, FiniteSets, TLC

VARIABLES
    op,          \* the operation called: "Extract", "List", "Text" or "File"
    pc,          \* the position of the call; "exited" after log.Fatal
    options,     \* the ResolveOptions of the call
    inName,      \* inputFileName
    outName,     \* outputFileName
    input,       \* the text as given (as read, for a file)
    list,        \* parameterReferences
    refs,        \* uniqueParameterReferences
    lookupCalls, \* the collections handed to the lookup, in order
    params,      \* parametersWithValues
    todo,        \* the keys the replacement loop has yet to visit
    text,        \* the text being rewritten (input, unresolvedText)
    ret,         \* what the call returned
    outFile,     \* the output file
    stages,      \* the stages a file call went through
    failed       \* the stage that failed, "none" so far

vars == <<op, pc, options, inName, outName, input, list, refs, lookupCalls,
          params, todo, text, ret, outFile, stages, failed>>

(***************************************************************************)
(* Bounds of the model.                                                    *)
(***************************************************************************)
\* the number of fragments an input text is made of
MaxFrags == 2
\* the length of the reference list given to ResolveParameterReferenceList
MaxRefs == 2

(***************************************************************************)
(* Characters and constants.                                               *)
(***************************************************************************)
\* "{{" and "}}", the delimiters of the pattern built at resolver.go:93
OpenBraces == <<"{", "{">>
CloseBraces == <<"}", "}">>

\* the tag of a secure reference (the constant is declared outside resolver.go)
ssmSecurePrefix == <<"s", "s", "m", "-", "s", "e", "c", "u", "r", "e", ":">>

\* the type name of a secure parameter (declared outside resolver.go)
secureStringType == "SecureString"

\* \s of the regular expressions
IsSpace(c) == c \in {" ", "\t", "\n"}

\* the characters of a group name in a replacement template: letters, digits
\* and the underscore, of which the texts of the model use these
IsWord(c) == c \in {"a", "b", "c", "e", "m", "r", "s", "u", "x", "V", "S", "_"}

\* the characters of a reference name inside a placeholder
IsNameChar(c) == IsWord(c) \/ c \in {"/", "-"}

(***************************************************************************)
(* Scanning helpers.                                                       *)
(***************************************************************************)
\* does the literal lit occur in t at position i
HasAt(t, i, lit) ==
    /\ i >= 1
    /\ i + Len(lit) - 1 <= Len(t)
    /\ \A k \in 1..Len(lit) : t[i + k - 1] = lit[k]

\* strings.HasPrefix
HasPrefix(s, prefix) == HasAt(s, 1, prefix)

RECURSIVE SkipSpace(_, _)
\* the first position at or after i that holds no white space (greedy \s*)
SkipSpace(t, i) ==
    IF i <= Len(t) /\ IsSpace(t[i]) THEN SkipSpace(t, i + 1) ELSE i

RECURSIVE SkipName(_, _)
\* the first position at or after i that holds no name character (greedy +)
SkipName(t, i) ==
    IF i <= Len(t) /\ IsNameChar(t[i]) THEN SkipName(t, i + 1) ELSE i

RECURSIVE SkipWord(_, _)
SkipWord(t, i) ==
    IF i <= Len(t) /\ IsWord(t[i]) THEN SkipWord(t, i + 1) ELSE i

\* the part of t from position i on
Tail_(t, i) == SubSeq(t, i, Len(t))

(***************************************************************************)
(* The two placeholder patterns of the parser.  A match at position i is   *)
(* [end |-> position after the match, ref |-> capture group 1]; end = 0    *)
(* means no match at i.                                                    *)
(***************************************************************************)
NoMatch == [end |-> 0, ref |-> <<>>]

\* parameterPlaceholder: {{\s*(name)\s*}}
PlainMatchAt(t, i) ==
    IF ~HasAt(t, i, OpenBraces) THEN NoMatch
    ELSE LET j == SkipSpace(t, i + 2)
             k == SkipName(t, j)
             l == SkipSpace(t, k)
         IN  IF k > j /\ HasAt(t, l, CloseBraces)
             THEN [end |-> l + 2, ref |-> SubSeq(t, j, k - 1)]
             ELSE NoMatch

\* secureParameterPlaceholder: {{\s*(ssm-secure:name)\s*}}
SecureMatchAt(t, i) ==
    IF ~HasAt(t, i, OpenBraces) THEN NoMatch
    ELSE LET j == SkipSpace(t, i + 2)
             n == j + Len(ssmSecurePrefix)
             k == SkipName(t, n)
             l == SkipSpace(t, k)
         IN  IF HasAt(t, j, ssmSecurePrefix) /\ k > n /\ HasAt(t, l, CloseBraces)
             THEN [end |-> l + 2, ref |-> SubSeq(t, j, k - 1)]
             ELSE NoMatch

RECURSIVE FindAllFrom(_, _, _)
FindAllFrom(t, i, secure) ==
    IF i > Len(t) THEN <<>>
    ELSE LET m == IF secure THEN SecureMatchAt(t, i) ELSE PlainMatchAt(t, i)
         IN  IF m.end = 0 THEN FindAllFrom(t, i + 1, secure)
             ELSE <<m.ref>> \o FindAllFrom(t, m.end, secure)

\* FindAllStringSubmatch(text, -1), reduced to capture group 1 of each match
FindAllStringSubmatch(t, secure) == FindAllFrom(t, 1, secure)

(***************************************************************************)
(* Replacement: regexp.MustCompile("{{\\s*" + ref + "\\s*}}") and          *)
(* ReplaceAllString.                                                       *)
(***************************************************************************)
\* the end of a match of {{\s*ref\s*}} at position i, 0 when there is none
RefMatchAt(t, i, ref) ==
    IF ~HasAt(t, i, OpenBraces) THEN 0
    ELSE LET j == SkipSpace(t, i + 2)
             l == SkipSpace(t, j + Len(ref))
         IN  IF HasAt(t, j, ref) /\ HasAt(t, l, CloseBraces) THEN l + 2 ELSE 0

RECURSIVE Expand(_)
\* the replacement template as ReplaceAllString expands it: $$ is a dollar,
\* $name and ${name} name a capture group, and the pattern has none, so they
\* expand to nothing; any other $ stays
Expand(tpl) ==
    IF tpl = <<>> THEN <<>>
    ELSE IF tpl[1] # "$" THEN <<tpl[1]>> \o Expand(Tail(tpl))
    ELSE IF HasAt(tpl, 2, <<"$">>) THEN <<"$">> \o Expand(Tail_(tpl, 3))
    ELSE IF HasAt(tpl, 2, <<"{">>)
         THEN LET k == SkipWord(tpl, 3)
              IN  IF k > 3 /\ HasAt(tpl, k, <<"}">>)
                  THEN Expand(Tail_(tpl, k + 1))
                  ELSE <<"$">> \o Expand(Tail(tpl))
    ELSE LET k == SkipWord(tpl, 2)
         IN  IF k > 2 THEN Expand(Tail_(tpl, k))
             ELSE <<"$">> \o Expand(Tail(tpl))

RECURSIVE ReplaceFrom(_, _, _, _)
ReplaceFrom(t, i, ref, repl) ==
    IF i > Len(t) THEN <<>>
    ELSE LET e == RefMatchAt(t, i, ref)
         IN  IF e = 0 THEN <<t[i]>> \o ReplaceFrom(t, i + 1, ref, repl)
             ELSE repl \o ReplaceFrom(t, e, ref, repl)

\* placeholder.ReplaceAllString(input, param.Value)
ReplaceAllString(t, ref, value) == ReplaceFrom(t, 1, ref, Expand(value))

(***************************************************************************)
(* The policy check and the helpers of the operations.                     *)
(***************************************************************************)
\* Go's nil map, and the map of a result that carries none
NoMap == [k \in {} |-> [Value |-> <<>>, Type |-> "String"]]

\* the set of the elements of a sequence
Range(s) == {s[i] : i \in 1..Len(s)}

\* the orders in which a range loop may visit the keys of a map
Orders(S) ==
    {s \in [1..Cardinality(S) -> S] : \A i, j \in 1..Cardinality(S) : s[i] = s[j] => i = j}

\* the policy check with the test of the stored type left out
invalidParameters_PrefixOnly(m) ==
    {key \in DOMAIN m : HasPrefix(key, ssmSecurePrefix)}

\* the keys the loops at resolver.go:33 and resolver.go:65 collect
invalidParameters(m) ==
    {key \in DOMAIN m : HasPrefix(key, ssmSecurePrefix) \/ m[key].Type = secureStringType}

\* dedupSlice handing the slice back as it came
dedupSlice_NoDedup(slice) == {slice}

\* the hash table dedupSlice fills (resolver.go:148-152)
DedupTable(slice) == Range(slice)

\* dedupSlice: the keys of the table, in the order the map iteration gives
dedupSlice(slice) == Orders(DedupTable(slice))

\* the table parseParametersFromTextIntoMap fills (resolver.go:173-180)
ParameterNamesDeduped(matchedPhrases, matchedSecurePhrases) ==
    Range(matchedPhrases) \cup Range(matchedSecurePhrases)

\* the error of the policy check
PolicyError == "resolving secure parameters is not allowed"

\* the policy check returning the map together with the error
FilterResult_KeepsMap(opts, m) ==
    IF ~opts.ResolveSecureParameters /\ Cardinality(invalidParameters(m)) > 0
    THEN [err |-> PolicyError, isNil |-> FALSE, map |-> m]
    ELSE [err |-> "nil", isNil |-> FALSE, map |-> m]

\* the policy check after the lookup: the (map, error) it makes the operation
\* return (resolver.go:30-44, and again resolver.go:62-76)
FilterResult(opts, m) ==
    IF ~opts.ResolveSecureParameters /\ Cardinality(invalidParameters(m)) > 0
    THEN [err |-> PolicyError, isNil |-> TRUE, map |-> NoMap]
    ELSE [err |-> "nil", isNil |-> FALSE, map |-> m]

\* the early return with the test of the option negated the wrong way
ParseRejects_Inverted(opts, matchedSecurePhrases) ==
    opts.ResolveSecureParameters /\ Len(matchedSecurePhrases) > 0

\* the early return with || in place of &&
ParseRejects_Or(opts, matchedSecurePhrases) ==
    ~opts.ResolveSecureParameters \/ Len(matchedSecurePhrases) > 0

\* the early return of parseParametersFromTextIntoMap (resolver.go:169)
ParseRejects(opts, matchedSecurePhrases) ==
    ~opts.ResolveSecureParameters /\ Len(matchedSecurePhrases) > 0

\* the condition under which ResolveParametersInText and ResolveParametersInFile
\* return without substituting (resolver.go:88, resolver.go:129)
NothingToSubstitute(err, isNil, m) == err # "nil" \/ isNil \/ Cardinality(DOMAIN m) = 0

(***************************************************************************)
(* The inputs of the model.                                                *)
(***************************************************************************)
Ref_a == <<"a">>
Ref_b == <<"b">>
Ref_s == ssmSecurePrefix \o <<"s">>

Fragments ==
    { OpenBraces \o Ref_a \o CloseBraces,
      OpenBraces \o <<" ">> \o Ref_a \o <<" ", " ">> \o CloseBraces,
      OpenBraces \o Ref_b \o CloseBraces,
      OpenBraces \o <<" ">> \o Ref_s \o CloseBraces,
      OpenBraces \o Ref_a \o <<"}">>,
      <<"x", " ">> }

RECURSIVE TextsUpTo(_)
TextsUpTo(n) ==
    IF n = 0 THEN {<<>>}
    ELSE LET shorter == TextsUpTo(n - 1)
         IN  shorter \cup {t \o f : t \in shorter, f \in Fragments}

Texts == TextsUpTo(MaxFrags)

RefNames == {Ref_a, Ref_b, Ref_s}

RefLists == UNION {[1..n -> RefNames] : n \in 0..MaxRefs}

\* what the store may hold for a reference
Infos ==
    { [Value |-> <<"V">>, Type |-> "String"],
      [Value |-> OpenBraces \o Ref_b \o CloseBraces, Type |-> "String"],
      [Value |-> <<"$", "S">>, Type |-> "StringList"],
      [Value |-> <<"S">>, Type |-> secureStringType] }

OptionValues == [ResolveSecureParameters : BOOLEAN]

FileNames == {"", "f"}

\* the results the lookup may give for a collection of references: a map of
\* some of them, or, when there is something to fetch, a store error
LookupMaps(references) ==
    UNION {[keys -> Infos] : keys \in SUBSET Range(references)}

LookupMayFail(references) == Len(references) > 0

\* what a call returns: the error ("nil" for none), the map (isNil for Go's nil
\* map) and the text
Return(err, isNil, m, t) == [err |-> err, isNil |-> isNil, map |-> m, text |-> t]

NoReturn == Return("none", TRUE, NoMap, <<>>)

(***************************************************************************)
(* The state machine.                                                      *)
(***************************************************************************)
Init ==
    /\ op = "none"
    /\ pc = "idle"
    /\ options = [ResolveSecureParameters |-> FALSE]
    /\ inName = ""
    /\ outName = ""
    /\ input = <<>>
    /\ list = <<>>
    /\ refs = <<>>
    /\ lookupCalls = <<>>
    /\ params = NoMap
    /\ todo = {}
    /\ text = <<>>
    /\ ret = NoReturn
    /\ outFile = [written |-> FALSE, text |-> <<>>]
    /\ stages = <<>>
    /\ failed = "none"

\* a caller calls ExtractParametersFromText(service, t, opts)
CallExtract ==
    /\ pc = "idle"
    /\ \E t \in Texts, o \in OptionValues :
         /\ op' = "Extract"
         /\ input' = t
         /\ text' = t
         /\ options' = o
    /\ pc' = "parse"
    /\ UNCHANGED <<inName, outName, list, refs, lookupCalls, params, todo, ret, outFile, stages, failed>>

\* a caller calls ResolveParametersInText(service, t, opts)
CallText ==
    /\ pc = "idle"
    /\ \E t \in Texts, o \in OptionValues :
         /\ op' = "Text"
         /\ input' = t
         /\ text' = t
         /\ options' = o
    /\ pc' = "parse"
    /\ UNCHANGED <<inName, outName, list, refs, lookupCalls, params, todo, ret, outFile, stages, failed>>

\* a caller calls ResolveParameterReferenceList(service, l, opts)
CallList ==
    /\ pc = "idle"
    /\ \E l \in RefLists, o \in OptionValues :
         /\ op' = "List"
         /\ list' = l
         /\ options' = o
    /\ pc' = "dedup"
    /\ UNCHANGED <<inName, outName, input, text, refs, lookupCalls, params, todo, ret, outFile, stages, failed>>

\* a caller calls ResolveParametersInFile(service, i, o, opts)
CallFile ==
    /\ pc = "idle"
    /\ \E i \in FileNames, o \in FileNames, opts \in OptionValues :
         /\ op' = "File"
         /\ inName' = i
         /\ outName' = o
         /\ options' = opts
    /\ pc' = "names"
    /\ UNCHANGED <<input, text, list, refs, lookupCalls, params, todo, ret, outFile, stages, failed>>

\* ExtractParametersFromText hands (m, err) back to its caller, which is the
\* outside caller, ResolveParametersInText (resolver.go:87-90) or
\* ResolveParametersInFile (resolver.go:128-131)
ExtractReturns(err, isNil, m) ==
    IF op = "Extract"
    THEN /\ ret' = Return(err, isNil, m, <<>>)
         /\ pc' = "done"
         /\ todo' = todo
    ELSE IF NothingToSubstitute(err, isNil, m)
         THEN /\ ret' = Return(err, TRUE, NoMap, IF op = "Text" THEN text ELSE <<>>)
              /\ pc' = "done"
              /\ todo' = todo
         ELSE /\ ret' = ret
              /\ pc' = "subst"
              /\ todo' = DOMAIN m

\* ResolveParametersInFile checks the two file names (resolver.go:110-116)
FileCheckNames ==
    /\ pc = "names"
    /\ IF Len(inName) = 0
       THEN /\ ret' = Return("input file name is not provided", TRUE, NoMap, <<>>)
            /\ pc' = "done"
            /\ failed' = "names"
       ELSE IF Len(outName) = 0
       THEN /\ ret' = Return("output file name is not provided", TRUE, NoMap, <<>>)
            /\ pc' = "done"
            /\ failed' = "names"
       ELSE /\ ret' = ret
            /\ pc' = "validate"
            /\ failed' = failed
    /\ UNCHANGED <<op, options, inName, outName, input, list, refs, lookupCalls,
                   params, todo, text, outFile, stages>>

\* validateFileAndSize(inputFileName) passes or fails (resolver.go:118-121)
FileValidate ==
    /\ pc = "validate"
    /\ stages' = Append(stages, "validate")
    /\ \/ /\ ret' = Return("invalid file", TRUE, NoMap, <<>>)
          /\ pc' = "done"
          /\ failed' = "validate"
       \/ /\ ret' = ret
          /\ pc' = "read"
          /\ failed' = failed
    /\ UNCHANGED <<op, options, inName, outName, input, list, refs, lookupCalls,
                   params, todo, text, outFile>>

\* readTextFromFile(inputFileName) gives the text or fails (resolver.go:123-126)
FileRead ==
    /\ pc = "read"
    /\ stages' = Append(stages, "read")
    /\ \/ /\ ret' = Return("read failed", TRUE, NoMap, <<>>)
          /\ pc' = "done"
          /\ failed' = "read"
          /\ UNCHANGED <<input, text>>
       \/ /\ \E t \in Texts :
               /\ input' = t
               /\ text' = t
          /\ ret' = ret
          /\ pc' = "parse"
          /\ failed' = failed
    /\ UNCHANGED <<op, options, inName, outName, list, refs, lookupCalls,
                   params, todo, outFile>>

\* parseParametersFromTextIntoMap, called at resolver.go:19 (resolver.go:165-188)
Parse ==
    /\ pc = "parse"
    /\ stages' = IF op = "File" THEN Append(stages, "resolve") ELSE stages
    /\ LET matchedPhrases == FindAllStringSubmatch(text, FALSE)
           matchedSecurePhrases == FindAllStringSubmatch(text, TRUE)
       IN  IF ParseRejects(options, matchedSecurePhrases)
           THEN /\ ExtractReturns(PolicyError, TRUE, NoMap)
                /\ refs' = refs
                /\ failed' = "parse"
           ELSE /\ \E r \in Orders(ParameterNamesDeduped(matchedPhrases, matchedSecurePhrases)) :
                     refs' = r
                /\ pc' = "lookup"
                /\ UNCHANGED <<ret, todo, failed>>
    /\ UNCHANGED <<op, options, inName, outName, input, list, lookupCalls,
                   params, text, outFile>>

\* getParametersFromSsmParameterStore in ExtractParametersFromText; an error
\* ends the process in log.Fatal (resolver.go:24-28)
Lookup ==
    /\ pc = "lookup"
    /\ lookupCalls' = Append(lookupCalls, refs)
    /\ \/ /\ LookupMayFail(refs)
          /\ pc' = "exited"
          /\ failed' = "lookup"
          /\ params' = params
       \/ /\ \E m \in LookupMaps(refs) : params' = m
          /\ pc' = "filter"
          /\ failed' = failed
    /\ UNCHANGED <<op, options, inName, outName, input, list, refs,
                   todo, text, ret, outFile, stages>>

\* the policy check of ExtractParametersFromText (resolver.go:30-44)
Filter ==
    /\ pc = "filter"
    /\ LET r == FilterResult(options, params)
       IN  /\ ExtractReturns(r.err, r.isNil, r.map)
           /\ failed' = IF r.err = "nil" THEN failed ELSE "filter"
    /\ UNCHANGED <<op, options, inName, outName, input, list, refs, lookupCalls,
                   params, text, outFile, stages>>

\* one round of the replacement loop (resolver.go:92-95, resolver.go:133-136)
Substitute ==
    /\ pc = "subst"
    /\ \E ref \in todo :
         /\ text' = ReplaceAllString(text, ref, params[ref].Value)
         /\ todo' = todo \ {ref}
    /\ UNCHANGED <<op, pc, options, inName, outName, input, list, refs, lookupCalls,
                   params, ret, outFile, stages, failed>>

\* ResolveParametersInText returns the text after the loop (resolver.go:97)
TextReturn ==
    /\ pc = "subst"
    /\ op = "Text"
    /\ todo = {}
    /\ ret' = Return("nil", TRUE, NoMap, text)
    /\ pc' = "done"
    /\ UNCHANGED <<op, options, inName, outName, input, list, refs, lookupCalls,
                   params, todo, text, outFile, stages, failed>>

\* writeToFile(unresolvedText, outputFileName); an error ends the process in
\* log.Fatal, with the file untouched or left truncated (resolver.go:138-144)
FileWrite ==
    /\ pc = "subst"
    /\ op = "File"
    /\ todo = {}
    /\ stages' = Append(stages, "write")
    /\ \/ /\ outFile' = [written |-> TRUE, text |-> text]
          /\ ret' = Return("nil", TRUE, NoMap, <<>>)
          /\ pc' = "done"
          /\ failed' = failed
       \/ /\ outFile' \in {outFile, [written |-> TRUE, text |-> <<>>]}
          /\ ret' = ret
          /\ pc' = "exited"
          /\ failed' = "write"
    /\ UNCHANGED <<op, options, inName, outName, input, list, refs, lookupCalls,
                   params, todo, text>>

\* ResolveParameterReferenceList removes the duplicates (resolver.go:55)
ListDedup ==
    /\ pc = "dedup"
    /\ \E r \in dedupSlice(list) : refs' = r
    /\ pc' = "listLookup"
    /\ UNCHANGED <<op, options, inName, outName, input, list, lookupCalls,
                   params, todo, text, ret, outFile, stages, failed>>

\* getParametersFromSsmParameterStore in ResolveParameterReferenceList; an
\* error ends the process in log.Fatal (resolver.go:56-60)
ListLookup ==
    /\ pc = "listLookup"
    /\ lookupCalls' = Append(lookupCalls, refs)
    /\ \/ /\ LookupMayFail(refs)
          /\ pc' = "exited"
          /\ failed' = "lookup"
          /\ params' = params
       \/ /\ \E m \in LookupMaps(refs) : params' = m
          /\ pc' = "listFilter"
          /\ failed' = failed
    /\ UNCHANGED <<op, options, inName, outName, input, list, refs,
                   todo, text, ret, outFile, stages>>

\* the policy check of ResolveParameterReferenceList (resolver.go:62-76)
ListFilter ==
    /\ pc = "listFilter"
    /\ LET r == FilterResult(options, params)
       IN  /\ ret' = Return(r.err, r.isNil, r.map, <<>>)
           /\ failed' = IF r.err = "nil" THEN failed ELSE "filter"
    /\ pc' = "done"
    /\ UNCHANGED <<op, options, inName, outName, input, list, refs, lookupCalls,
                   params, todo, text, outFile, stages>>

Next ==
    \/ CallExtract
    \/ CallText
    \/ CallList
    \/ CallFile
    \/ FileCheckNames
    \/ FileValidate
    \/ FileRead
    \/ Parse
    \/ Lookup
    \/ Filter
    \/ Substitute
    \/ TextReturn
    \/ FileWrite
    \/ ListDedup
    \/ ListLookup
    \/ ListFilter

Spec == Init /\ [][Next]_vars

(***************************************************************************)
(* What the properties speak of.                                           *)
(***************************************************************************)
\* the call has returned to its caller
Returned == pc = "done"

RECURSIVE ReferencesFrom(_, _)
\* the references of the placeholders, plain and secure, of t from position i on
ReferencesFrom(t, i) ==
    IF i > Len(t) THEN {}
    ELSE IF ~HasAt(t, i, OpenBraces) THEN ReferencesFrom(t, i + 1)
    ELSE LET p == PlainMatchAt(t, i)
             s == SecureMatchAt(t, i)
         IN  IF p.end # 0 THEN {p.ref} \cup ReferencesFrom(t, p.end)
             ELSE IF s.end # 0 THEN {s.ref} \cup ReferencesFrom(t, s.end)
             ELSE ReferencesFrom(t, i + 1)

\* the distinct references of the placeholders of a text
ReferencesOf(t) == ReferencesFrom(t, 1)

\* the text holds a secure placeholder
HasSecurePlaceholder(t) == Len(FindAllStringSubmatch(t, TRUE)) > 0

\* the text holds no placeholder, plain or secure
HasNoPlaceholder(t) == ReferencesOf(t) = {}

\* an entry classified secure, by its key or by its type
SecureEntry(m, k) == HasPrefix(k, ssmSecurePrefix) \/ m[k].Type = secureStringType

\* no element occurs twice in the sequence
NoDuplicates(s) == \A i, j \in 1..Len(s) : s[i] = s[j] => i = j

RECURSIVE RunLoop(_, _, _)
\* the replacement loop run to its end, visiting the keys in the given order
\* (resolver.go:92-95)
RunLoop(t, m, order) ==
    IF order = <<>> THEN t
    ELSE RunLoop(ReplaceAllString(t, Head(order), m[Head(order)].Value), m, Tail(order))

RECURSIVE SubstitutedOnce(_, _, _)
\* the text t from position i on, with each placeholder of t whose reference
\* is a key of m replaced by the value as it stands, and all else kept
SubstitutedOnce(t, i, m) ==
    IF i > Len(t) THEN <<>>
    ELSE LET p == PlainMatchAt(t, i)
             s == SecureMatchAt(t, i)
             hit == IF p.end # 0 THEN p ELSE s
         IN  IF hit.end # 0 /\ hit.ref \in DOMAIN m
             THEN m[hit.ref].Value \o SubstitutedOnce(t, hit.end, m)
             ELSE <<t[i]>> \o SubstitutedOnce(t, i + 1, m)

(***************************************************************************)
(* C1.  With ResolveSecureParameters false, a map that                     *)
(* ExtractParametersFromText or ResolveParameterReferenceList returns      *)
(* holds no entry with a secure key or a secure type, and whenever the     *)
(* result of the lookup holds such an entry the call returns the policy    *)
(* error and no map.                                                       *)
(***************************************************************************)
C1_NoSecureEntryReturned ==
    (op \in {"Extract", "List"} /\ Returned /\ ~options.ResolveSecureParameters) =>
        /\ ~ret.isNil => \A k \in DOMAIN ret.map : ~SecureEntry(ret.map, k)
        /\ (Len(lookupCalls) > 0 /\ \E k \in DOMAIN params : SecureEntry(params, k)) =>
               (ret.err = PolicyError /\ ret.isNil)

\* a plain reference stored as a secure string is looked up and refused
C1_Witness ==
    /\ op = "Extract"
    /\ Returned
    /\ ~options.ResolveSecureParameters
    /\ Ref_a \in DOMAIN params
    /\ params[Ref_a].Type = secureStringType
    /\ ret.err = PolicyError

(***************************************************************************)
(* C2.  With ResolveSecureParameters false and a secure placeholder in the *)
(* text, the operation fails with the policy error and the lookup is never *)
(* called.                                                                 *)
(***************************************************************************)
C2_SecureSyntaxFailsBeforeLookup ==
    (op \in {"Extract", "Text", "File"} /\ ~options.ResolveSecureParameters
        /\ HasSecurePlaceholder(input)) =>
        /\ lookupCalls = <<>>
        /\ pc \in {"parse", "done"}
        /\ Returned => ret.err = PolicyError

C2_Witness ==
    /\ op = "File"
    /\ Returned
    /\ ~options.ResolveSecureParameters
    /\ HasSecurePlaceholder(input)
    /\ ret.err = PolicyError
    /\ lookupCalls = <<>>

(***************************************************************************)
(* C3.  After a failed lookup or a failed write the operation returns the  *)
(* error to its caller; the process is not ended.                          *)
(***************************************************************************)
C3_PortErrorIsReturned ==
    failed \in {"lookup", "write"} => (Returned /\ ret.err \notin {"nil", "none"})

C5_OrderIndependent ==
    (op \in {"Text", "File"} /\ pc = "subst" /\ todo = {}) =>
        \A order \in Orders(DOMAIN params) : text = RunLoop(input, params, order)

(***************************************************************************)
(* C6.  The text ResolveParametersInText returns on success is the input   *)
(* with each placeholder whose reference is a key of the map replaced by   *)
(* the value of that key, once, and everything else as it was.             *)
(***************************************************************************)
C6_SubstitutesOnce ==
    (op = "Text" /\ Returned /\ ret.err = "nil") =>
        ret.text = SubstitutedOnce(input, 1, params)

C8_LookupGetsDistinctReferences ==
    \A i \in 1..Len(lookupCalls) :
        /\ NoDuplicates(lookupCalls[i])
        /\ Range(lookupCalls[i]) = IF op = "List" THEN Range(list) ELSE ReferencesOf(input)

\* a text with the same reference twice, looked up as a collection of one
C8_Witness ==
    /\ op = "Text"
    /\ Len(FindAllStringSubmatch(input, FALSE)) >= 2
    /\ lookupCalls = << <<Ref_a>> >>

(***************************************************************************)
(* C9.  A ResolveParametersInFile call that returns no error has gone      *)
(* through validate, read, resolve and write, in that order, and the       *)
(* output file holds the resolved text.                                    *)
(***************************************************************************)
C9_SuccessHasWritten ==
    (op = "File" /\ Returned /\ ret.err = "nil") =>
        /\ stages = <<"validate", "read", "resolve", "write">>
        /\ outFile.written
        /\ outFile.text = text

(***************************************************************************)
(* C10.  ResolveParametersInFile stops at the first error: a bad file      *)
(* name, a failed validation or a failed read returns the error with no    *)
(* lookup and no write; a failed parse, lookup or policy check returns the *)
(* error with no write.                                                    *)
(***************************************************************************)
C10_FileStopsAtFirstError ==
    (op = "File" /\ failed \in {"names", "validate", "read", "parse", "lookup", "filter"}) =>
        /\ Returned
        /\ ret.err \notin {"nil", "none"}
        /\ ~outFile.written
        /\ "write" \notin Range(stages)
        /\ failed \in {"names", "validate", "read"} => lookupCalls = <<>>

====
